---- MODULE Spec2Model ----
\* Model of rspack's JavascriptParser (crates/rspack_plugin_javascript,
\* visitors/dependency/parser/mod.rs): the scope/variable store operations
\* (define_variable, undefined_variable, tag_variable), free-name resolution
\* (get_free_info_from_variable, call_hooks_name) and the walk_program entry.
EXTENDS Integers, Sequences, FiniteSets, TLC

VARIABLES
  definitions,     \* JavascriptParser.definitions: the current ScopeInfoId
  scope_map,       \* definitions_db: scope id -> (name -> VariableInfo bound in that scope)
  is_strict,       \* definitions_db: scope id -> ScopeInfo.is_strict
  variable_count,  \* definitions_db: number of VariableInfo values created so far
  last,            \* the most recent parser operation: arguments, visible binding before it, result
  tag_run,         \* per name, the (tag, data) of the tag_variable calls made on it in a row
  pc,              \* position of walk_program
  ast,             \* the Program handed to walk_program
  plugins,         \* per registered plugin, what its `program` hook returns
  hook_calls,      \* per registered plugin, how often its `program` hook was invoked
  trace,           \* the passes walk_program has started, in order
  ignored,         \* JavascriptParser.ignored: the spans evaluated to compile-time values
  chain            \* extract_member_expression_chain under way: its object, members, member_ranges

store_vars == <<definitions, scope_map, variable_count>>
walk_vars == <<pc, ast, plugins, hook_calls, trace>>
vars == <<definitions, scope_map, is_strict, variable_count,
          last, tag_run, pc, ast, plugins, hook_calls, trace, ignored, chain>>

-----------------------------------------------------------------------------
\* Bounds of the model

MaxVars == 3      \* VariableInfo values created in one behaviour
MaxScopes == 2    \* depth of scope nesting (the root included)
MaxBody == 2      \* statements in a program body
NumPlugins == 2   \* registered plugins

Names == {"a", "require"}

\* Option<T>: None is the empty tuple, Some(x) the one-element tuple
None == <<>>
Some(x) == <<x>>
IsSome(o) == Len(o) = 1
Unwrap(o) == o[1]

\* the (tag, data) pairs plugins tag with
TagArgs == {<<"t1", None>>, <<"t2", Some("d1")>>}

\* enum FreeName { String(String), True }, held as Option<FreeName>
FreeName_True == <<"True">>
FreeName_String(s) == <<"String", s>>
IsFreeString(f) == IsSome(f) /\ Unwrap(f)[1] = "String"

-----------------------------------------------------------------------------
\* ScopeInfoDB (visitors/scope_info.rs)

\* VariableInfo::new(declared_scope, free_name, tag_info), with the identity
\* id() returns; tag_info is the chain of TagInfo { tag, data, next }, most
\* recent first, None being the empty chain
VariableInfo_new(id, declared_scope, free_name, tag_info) ==
  [id |-> id, declared_scope |-> declared_scope, free_name |-> free_name,
   tag_info |-> tag_info]

\* TagInfo { tag, data, next }: the new head followed by the chain `next` owns
TagInfo(tag, data, next) == <<[tag |-> tag, data |-> data]>> \o next

\* ScopeInfoDB::get(scope, name): the binding visible for name, looked up from
\* scope outward through the enclosing scopes (scope s encloses scope s + 1)
RECURSIVE db_get(_, _)
db_get(s, name) ==
  IF name \in DOMAIN scope_map[s] THEN Some(scope_map[s][name])
  ELSE IF s = 1 THEN None
  ELSE db_get(s - 1, name)

\* ScopeInfoDB::set(scope, name, info): binds name to info in scope
db_set(s, name, info) ==
  [scope_map EXCEPT ![s] = [n \in (DOMAIN @) \cup {name} |-> IF n = name THEN info ELSE @[n]]]

\* ScopeInfoDB::delete(scope, name): removes name's binding from scope
db_delete(s, name) ==
  [scope_map EXCEPT ![s] = [n \in (DOMAIN @) \ {name} |-> @[n]]]

\* the bindings the store holds
AllInfos == UNION {{scope_map[s][n] : n \in DOMAIN scope_map[s]} : s \in 1..definitions}

\* ScopeInfoDB::expect_get_variable(id)
expect_get_variable(id) == CHOOSE i \in AllInfos : i.id = id

-----------------------------------------------------------------------------
\* JavascriptParser

\* get_variable_info(name): the visible binding, if any
get_variable_info(name) == db_get(definitions, name)

\* FreeInfo { name, info }: info is the binding's identity when there is one
FreeInfo(name, info) == [name |-> name, info |-> info]

\* a faulty get_free_info_from_variable (C4): any free_name of a binding resolves, to the bare name
get_free_info_any_free_name(name) ==
  LET info == get_variable_info(name) IN
  IF ~IsSome(info) THEN Some(FreeInfo(name, None))
  ELSE IF IsSome(Unwrap(info).free_name)
       THEN Some(FreeInfo(name, Some(Unwrap(info).id)))
       ELSE None

get_free_info_from_variable(name) ==
  LET info == get_variable_info(name) IN
  IF ~IsSome(info) THEN Some(FreeInfo(name, None))
  ELSE IF IsFreeString(Unwrap(info).free_name)
       THEN Some(FreeInfo(Unwrap(Unwrap(info).free_name)[2], Some(Unwrap(info).id)))
       ELSE None

\* a faulty call_hooks_name (C5): a binding without a free name string falls through to the bare name
call_hooks_name_str_fallthrough(name) ==
  LET info == get_variable_info(name) IN
  IF IsSome(info) /\ IsFreeString(Unwrap(info).free_name)
  THEN Some(Unwrap(Unwrap(info).free_name)[2])
  ELSE Some(name)

\* impl CallHooksName for &str
call_hooks_name_str(name) ==
  LET info == get_variable_info(name) IN
  IF IsSome(info)
  THEN IF IsFreeString(Unwrap(info).free_name)
       THEN Some(Unwrap(Unwrap(info).free_name)[2])
       ELSE None
  ELSE Some(name)

\* enum ExportedVariableInfo { Name(String), VariableInfo(VariableInfoId) }
ExportedVariableInfo_Name(n) == <<"Name", n>>
ExportedVariableInfo_VariableInfo(id) == <<"VariableInfo", id>>

\* impl CallHooksName for ExportedVariableInfo
call_hooks_name_exported(e) ==
  IF e[1] = "Name" THEN call_hooks_name_str(e[2])
  ELSE LET info == expect_get_variable(e[2]) IN
       IF IsFreeString(info.free_name) THEN Some(Unwrap(info.free_name)[2]) ELSE None

\* a faulty define_is_noop (C3): any tagged binding is left alone, whatever scope declared it
define_is_noop_any_scope(name) ==
  LET variable_info == get_variable_info(name) IN
  /\ IsSome(variable_info)
  /\ Unwrap(variable_info).tag_info # None

\* define_variable's early return: the visible binding is tagged and was
\* declared in the current scope
define_is_noop(name) ==
  LET variable_info == get_variable_info(name) IN
  /\ IsSome(variable_info)
  /\ Unwrap(variable_info).tag_info # None
  /\ definitions = Unwrap(variable_info).declared_scope

\* a faulty define_new_info (C22): the declared binding has a free name
define_new_info_free_true(id) == VariableInfo_new(id, definitions, Some(FreeName_True), None)

\* the VariableInfo define_variable installs
define_new_info(id) == VariableInfo_new(id, definitions, None, None)

\* a faulty tag_new_info (C1): a tagged binding's free_name is forced to FreeName::True
tag_new_info_forced_true(id, name, tag, data) ==
  LET old == get_variable_info(name) IN
  IF IsSome(old)
  THEN VariableInfo_new(id, Unwrap(old).declared_scope, Some(FreeName_True),
                        TagInfo(tag, data, Unwrap(old).tag_info))
  ELSE VariableInfo_new(id, definitions, Some(FreeName_String(name)),
                        TagInfo(tag, data, None))

\* a faulty tag_new_info (C2): the new tag does not link to the old chain
tag_new_info_no_next(id, name, tag, data) ==
  LET old == get_variable_info(name) IN
  IF IsSome(old)
  THEN VariableInfo_new(id, Unwrap(old).declared_scope,
                        IF Unwrap(old).tag_info # None THEN Unwrap(old).free_name
                        ELSE Some(FreeName_True),
                        TagInfo(tag, data, None))
  ELSE VariableInfo_new(id, definitions, Some(FreeName_String(name)),
                        TagInfo(tag, data, None))

\* a faulty tag_new_info (C6): an unbound name is tagged free but unnamed
tag_new_info_unbound_true(id, name, tag, data) ==
  LET old == get_variable_info(name) IN
  IF IsSome(old)
  THEN VariableInfo_new(id, Unwrap(old).declared_scope,
                        IF Unwrap(old).tag_info # None THEN Unwrap(old).free_name
                        ELSE Some(FreeName_True),
                        TagInfo(tag, data, Unwrap(old).tag_info))
  ELSE VariableInfo_new(id, definitions, Some(FreeName_True), TagInfo(tag, data, None))

\* a faulty tag_new_info (C7): a declared name is tagged free and named
tag_new_info_declared_string(id, name, tag, data) ==
  LET old == get_variable_info(name) IN
  IF IsSome(old)
  THEN VariableInfo_new(id, Unwrap(old).declared_scope,
                        IF Unwrap(old).tag_info # None THEN Unwrap(old).free_name
                        ELSE Some(FreeName_String(name)),
                        TagInfo(tag, data, Unwrap(old).tag_info))
  ELSE VariableInfo_new(id, definitions, Some(FreeName_String(name)),
                        TagInfo(tag, data, None))

\* a faulty tag_new_info (C23): an unbound name is tagged with the free name of another
tag_new_info_other_string(id, name, tag, data) ==
  LET old == get_variable_info(name) IN
  IF IsSome(old)
  THEN LET old_info == Unwrap(old) IN
       IF old_info.tag_info # None
       THEN VariableInfo_new(id, old_info.declared_scope, old_info.free_name,
                             TagInfo(tag, data, old_info.tag_info))
       ELSE VariableInfo_new(id, old_info.declared_scope, Some(FreeName_True),
                             TagInfo(tag, data, None))
  ELSE VariableInfo_new(id, definitions, Some(FreeName_String("require")),
                        TagInfo(tag, data, None))

\* the VariableInfo tag_variable installs for name
tag_new_info(id, name, tag, data) ==
  LET old == get_variable_info(name) IN
  IF IsSome(old)
  THEN LET old_info == Unwrap(old) IN
       IF old_info.tag_info # None
       THEN VariableInfo_new(id, old_info.declared_scope, old_info.free_name,
                             TagInfo(tag, data, old_info.tag_info))
       ELSE VariableInfo_new(id, old_info.declared_scope, Some(FreeName_True),
                             TagInfo(tag, data, None))
  ELSE VariableInfo_new(id, definitions, Some(FreeName_String(name)),
                        TagInfo(tag, data, None))

\* the record of an operation: its name and arguments, the binding visible for
\* its name before it ran, and what it returned
Op(op, name, arg, ret) ==
  [op |-> op, name |-> name, arg |-> arg, ret |-> ret,
   pre |-> IF name \in Names THEN get_variable_info(name) ELSE None]

NoNames == [n \in {} |-> 0]
NoRuns == [n \in Names |-> <<>>]

\* tag_run after tag_variable(name, tag, data): a run starts on a name without
\* tag info and goes on while one is under way
run_after_tag(name, tag, data) ==
  LET old == get_variable_info(name)
      fresh == ~IsSome(old) \/ Unwrap(old).tag_info = None IN
  [tag_run EXCEPT ![name] =
     IF fresh THEN <<[tag |-> tag, data |-> data]>>
     ELSE IF @ # <<>> THEN Append(@, [tag |-> tag, data |-> data])
     ELSE <<>>]

-----------------------------------------------------------------------------
\* Programs (swc_core::ecma::ast), as far as walk_program looks into them

\* Stmt::Expr(ExprStmt { expr: Expr::Lit(Lit::Str(value)) })
Stmt_StrLit(value) == [stmt |-> "Expr", expr |-> "Lit", lit |-> "Str", value |-> value]
\* Stmt::Expr(ExprStmt { expr: Expr::Lit(Lit::Num(_)) })
Stmt_NumLit == [stmt |-> "Expr", expr |-> "Lit", lit |-> "Num", value |-> "1"]
\* Stmt::Expr(ExprStmt { expr: Expr::Ident(_) })
Stmt_Ident == [stmt |-> "Expr", expr |-> "Ident", lit |-> "", value |-> "x"]
\* Stmt::Decl(_)
Stmt_Decl == [stmt |-> "Decl", expr |-> "", lit |-> "", value |-> ""]

Stmts == {Stmt_StrLit("use strict"), Stmt_StrLit("use strict "), Stmt_NumLit,
          Stmt_Ident, Stmt_Decl}

RECURSIVE Bodies(_)
Bodies(n) ==
  IF n = 0 THEN {<<>>}
  ELSE Bodies(n - 1) \cup {Append(b, st) : b \in {c \in Bodies(n - 1) : Len(c) = n - 1}, st \in Stmts}

Programs == {[kind |-> k, body |-> b] : k \in {"Module", "Script"}, b \in Bodies(MaxBody)}

\* what a plugin's `program` hook returns: None (the trait's default), Some(true) or Some(false)
HookResults == {None, Some(TRUE), Some(FALSE)}

\* JavaScriptParserPluginDrive::program: the plugins are asked in registration
\* order and the first Some is the result
RECURSIVE drive_program(_)
drive_program(i) ==
  IF i > NumPlugins THEN None
  ELSE IF IsSome(plugins[i]) THEN plugins[i]
  ELSE drive_program(i + 1)

\* the plugins the drive asks: all up to and including the first that returns Some
drive_asked(i) == \A j \in 1..(i - 1) : ~IsSome(plugins[j])

\* a faulty run_builtin_passes (C8): only Some(true) hands the program off
run_builtin_passes_unless_true(result) == result # Some(TRUE)

\* walk_program runs the built-in passes when the program hook's result is_none()
run_builtin_passes(result) == ~IsSome(result)

\* a faulty after (C9): the walk pass runs before the block-pre-walk pass
after_walk_first(p) ==
  CASE p = "mode" -> "pre_walk"
    [] p = "pre_walk" -> "walk"
    [] p = "walk" -> "block_pre_walk"
    [] p = "block_pre_walk" -> "done"

\* the order of the calls in walk_program's match arms: what follows call p
after(p) ==
  CASE p = "mode" -> "pre_walk"
    [] p = "pre_walk" -> "block_pre_walk"
    [] p = "block_pre_walk" -> "walk"
    [] p = "walk" -> "done"

\* a faulty is_use_strict (C10): the directive is found in any statement of the body
is_use_strict_anywhere(stmts) ==
  \E i \in 1..Len(stmts) :
    /\ stmts[i].stmt = "Expr"
    /\ stmts[i].expr = "Lit"
    /\ stmts[i].lit = "Str"
    /\ stmts[i].value = "use strict"

\* detect_mode's test: the first statement is an expression statement holding
\* the string literal "use strict"
is_use_strict(stmts) ==
  /\ Len(stmts) > 0
  /\ stmts[1].stmt = "Expr"
  /\ stmts[1].expr = "Lit"
  /\ stmts[1].lit = "Str"
  /\ stmts[1].value = "use strict"

\* set_strict(value) on the current scope
set_strict(value) == [is_strict EXCEPT ![definitions] = value]

\* detect_mode(stmts)
detect_mode(stmts) == IF is_use_strict(stmts) THEN set_strict(TRUE) ELSE is_strict

-----------------------------------------------------------------------------
\* The store operations

Init ==
  /\ definitions = 1
  /\ scope_map = [s \in 1..MaxScopes |-> NoNames]
  /\ is_strict = [s \in 1..MaxScopes |-> FALSE]
  /\ variable_count = 0
  /\ last = Op("new", "", None, None)
  /\ tag_run = NoRuns
  /\ pc = "new"
  /\ ast = [kind |-> "Script", body |-> <<>>]
  /\ plugins = [i \in 1..NumPlugins |-> None]
  /\ hook_calls = [i \in 1..NumPlugins |-> 0]
  /\ trace = <<>>
  /\ ignored = {}
  /\ chain = None

define_variable(name) ==
  /\ IF define_is_noop(name)
     THEN UNCHANGED <<scope_map, variable_count>>
     ELSE /\ variable_count < MaxVars
          /\ variable_count' = variable_count + 1
          /\ scope_map' = db_set(definitions, name, define_new_info(variable_count + 1))
  /\ last' = Op("define_variable", name, None, None)
  /\ tag_run' = [tag_run EXCEPT ![name] = <<>>]
  /\ UNCHANGED <<definitions, is_strict>>
  /\ UNCHANGED <<walk_vars, ignored, chain>>

\* a faulty undefined_variable (C18): a tagged binding is kept
undefined_variable_keep_tagged(name) ==
  /\ scope_map' = IF name \in DOMAIN scope_map[definitions]
                     /\ scope_map[definitions][name].tag_info # None
                  THEN scope_map
                  ELSE db_delete(definitions, name)
  /\ last' = Op("undefined_variable", name, None, None)
  /\ tag_run' = [tag_run EXCEPT ![name] = <<>>]
  /\ UNCHANGED <<definitions, is_strict, variable_count>>
  /\ UNCHANGED <<walk_vars, ignored, chain>>

undefined_variable(name) ==
  /\ scope_map' = db_delete(definitions, name)
  /\ last' = Op("undefined_variable", name, None, None)
  /\ tag_run' = [tag_run EXCEPT ![name] = <<>>]
  /\ UNCHANGED <<definitions, is_strict, variable_count>>
  /\ UNCHANGED <<walk_vars, ignored, chain>>

tag_variable(name, tag, data) ==
  /\ variable_count < MaxVars
  /\ variable_count' = variable_count + 1
  /\ scope_map' = db_set(definitions, name, tag_new_info(variable_count + 1, name, tag, data))
  /\ last' = Op("tag_variable", name, <<tag, data>>, None)
  /\ tag_run' = run_after_tag(name, tag, data)
  /\ UNCHANGED <<definitions, is_strict>>
  /\ UNCHANGED <<walk_vars, ignored, chain>>

\* entering a nested scope: definitions becomes a fresh child of the current scope
enter_scope ==
  /\ definitions < MaxScopes
  /\ definitions' = definitions + 1
  /\ scope_map' = [scope_map EXCEPT ![definitions + 1] = NoNames]
  /\ last' = Op("enter_scope", "", None, None)
  /\ tag_run' = NoRuns
  /\ UNCHANGED <<is_strict, variable_count>>
  /\ UNCHANGED <<walk_vars, ignored, chain>>

\* leaving it: definitions is set back to the enclosing scope, and the scope
\* left is never reached again
leave_scope ==
  /\ definitions > 1
  /\ definitions' = definitions - 1
  /\ scope_map' = [scope_map EXCEPT ![definitions] = NoNames]
  /\ last' = Op("leave_scope", "", None, None)
  /\ tag_run' = NoRuns
  /\ UNCHANGED <<is_strict, variable_count>>
  /\ UNCHANGED <<walk_vars, ignored, chain>>

\* the queries: their result is recorded
query_get_free_info_from_variable(name) ==
  /\ last' = Op("get_free_info_from_variable", name, None, get_free_info_from_variable(name))
  /\ UNCHANGED <<store_vars, is_strict, tag_run>>
  /\ UNCHANGED <<walk_vars, ignored, chain>>

query_call_hooks_name(name) ==
  /\ last' = Op("call_hooks_name", name, None, call_hooks_name_str(name))
  /\ UNCHANGED <<store_vars, is_strict, tag_run>>
  /\ UNCHANGED <<walk_vars, ignored, chain>>

\* the exported variable references a caller can hold
ExportedVariableInfos ==
  {ExportedVariableInfo_Name(n) : n \in Names}
    \cup {ExportedVariableInfo_VariableInfo(i.id) : i \in AllInfos}

query_call_hooks_name_exported(e) ==
  /\ last' = Op("call_hooks_name_exported", "", e, call_hooks_name_exported(e))
  /\ UNCHANGED <<store_vars, is_strict, tag_run>>
  /\ UNCHANGED <<walk_vars, ignored, chain>>

Next ==
  \/ \E n \in Names : define_variable(n)
  \/ \E n \in Names : undefined_variable(n)
  \/ \E n \in Names, ta \in TagArgs : tag_variable(n, ta[1], ta[2])
  \/ enter_scope
  \/ leave_scope
  \/ \E n \in Names : query_get_free_info_from_variable(n)
  \/ \E n \in Names : query_call_hooks_name(n)
  \/ \E e \in ExportedVariableInfos : query_call_hooks_name_exported(e)

Spec == Init /\ [][Next]_vars

-----------------------------------------------------------------------------
\* walk_program

WalkInit ==
  /\ definitions = 1
  /\ scope_map = [s \in 1..MaxScopes |-> NoNames]
  /\ is_strict = [s \in 1..MaxScopes |-> FALSE]
  /\ variable_count = 0
  /\ last = Op("new", "", None, None)
  /\ tag_run = NoRuns
  /\ pc = "new"
  /\ ast \in Programs
  /\ plugins \in [1..NumPlugins -> HookResults]
  /\ hook_calls = [i \in 1..NumPlugins |-> 0]
  /\ trace = <<>>
  /\ ignored = {}
  /\ chain = None

\* walk_program's entry: the program hook is dispatched, and its result
\* decides whether the built-in passes run
walk_program ==
  /\ pc = "new"
  /\ hook_calls' = [i \in 1..NumPlugins |-> IF drive_asked(i) THEN hook_calls[i] + 1 ELSE hook_calls[i]]
  /\ trace' = Append(trace, <<"program", ast.body>>)
  /\ pc' = IF run_builtin_passes(drive_program(1)) THEN "mode" ELSE "done"
  /\ UNCHANGED <<store_vars, ignored, chain, is_strict, last, tag_run, ast, plugins>>

\* Program::Module: set_strict(true); Program::Script: detect_mode(&s.body)
walk_mode ==
  /\ pc = "mode"
  /\ IF ast.kind = "Module"
     THEN /\ is_strict' = set_strict(TRUE)
          /\ trace' = Append(trace, <<"set_strict", ast.body>>)
     ELSE /\ is_strict' = detect_mode(ast.body)
          /\ trace' = Append(trace, <<"detect_mode", ast.body>>)
  /\ pc' = after(pc)
  /\ UNCHANGED <<store_vars, ignored, chain, last, tag_run, ast, plugins, hook_calls>>

\* pre_walk_module_declarations(&m.body) / pre_walk_statements(&s.body)
pre_walk ==
  /\ pc = "pre_walk"
  /\ trace' = Append(trace, <<"pre_walk", ast.body>>)
  /\ pc' = after(pc)
  /\ UNCHANGED <<store_vars, ignored, chain, is_strict, last, tag_run, ast, plugins, hook_calls>>

\* block_pre_walk_module_declarations(&m.body) / block_pre_walk_statements(&s.body)
block_pre_walk ==
  /\ pc = "block_pre_walk"
  /\ trace' = Append(trace, <<"block_pre_walk", ast.body>>)
  /\ pc' = after(pc)
  /\ UNCHANGED <<store_vars, ignored, chain, is_strict, last, tag_run, ast, plugins, hook_calls>>

\* walk_module_declarations(&m.body) / walk_statements(&s.body)
walk ==
  /\ pc = "walk"
  /\ trace' = Append(trace, <<"walk", ast.body>>)
  /\ pc' = after(pc)
  /\ UNCHANGED <<store_vars, ignored, chain, is_strict, last, tag_run, ast, plugins, hook_calls>>

WalkNext ==
  \/ walk_program
  \/ walk_mode
  \/ pre_walk
  \/ block_pre_walk
  \/ walk

WalkSpec == WalkInit /\ [][WalkNext]_vars
-----------------------------------------------------------------------------
\* Properties of the store operations (checked under Spec)

Reverse(seq) == [i \in 1..Len(seq) |-> seq[Len(seq) + 1 - i]]

\* the last operation was tag_variable on a name whose visible binding carried tag info
TaggedATagged ==
  /\ last.op = "tag_variable"
  /\ IsSome(last.pre)
  /\ Unwrap(last.pre).tag_info # None

\* C1, as stated: tag_variable on a name whose visible binding already carries
\* tag info produces a binding whose free_name is FreeName::True, whatever it
\* was before
C1_TagForcesFreeTrue ==
  TaggedATagged =>
    Unwrap(get_variable_info(last.name)).free_name = Some(FreeName_True)

\* C1, amended: tag_variable on a name whose visible binding already carries
\* tag info produces a binding whose free_name is the free_name the binding had
\* before the call: String(n) stays String(n), FreeName::True stays FreeName::True
C1_TagKeepsFreeName ==
  TaggedATagged =>
    /\ IsSome(get_variable_info(last.name))
    /\ Unwrap(get_variable_info(last.name)).free_name = Unwrap(last.pre).free_name

\* a second tag of a name first tagged while unbound: free_name is still String(n)
C1_Witness ==
  /\ TaggedATagged
  /\ Unwrap(last.pre).free_name = Some(FreeName_String(last.name))
  /\ Unwrap(get_variable_info(last.name)).free_name = Some(FreeName_String(last.name))

\* C2: after k >= 1 tag_variable calls in a row on a name n that had no tag
\* info before the first of them (no define or undefine of n and no scope
\* change in between), the tag chain of n's binding is the k tags, most recent
\* first, each with its label and data unchanged
C2_TagChainOrder ==
  \A n \in Names :
    tag_run[n] # <<>> =>
      /\ IsSome(get_variable_info(n))
      /\ Len(Unwrap(get_variable_info(n)).tag_info) = Len(tag_run[n])
      /\ Unwrap(get_variable_info(n)).tag_info = Reverse(tag_run[n])

\* two tags with different labels in a row: the second is the head, the first its next
C2_Witness ==
  /\ last.op = "tag_variable"
  /\ Len(tag_run[last.name]) >= 2
  /\ tag_run[last.name][1] # tag_run[last.name][2]
  /\ Len(Unwrap(get_variable_info(last.name)).tag_info) = Len(tag_run[last.name])

\* the binding define_variable found was tagged and declared in the current scope
DefineFoundTaggedHere ==
  /\ IsSome(last.pre)
  /\ Unwrap(last.pre).tag_info # None
  /\ Unwrap(last.pre).declared_scope = definitions

\* C3: define_variable(n) leaves the binding untouched exactly when the visible
\* binding of n carries tag info and was declared in the current scope; in
\* every other case it installs in the current scope a fresh binding declared
\* there, with no free name and no tag info; either way the current scope
\* holds one binding for n
C3_DefineNoopOrFresh ==
  last.op = "define_variable" =>
    LET n == last.name
        cur == get_variable_info(n) IN
    /\ n \in DOMAIN scope_map[definitions]
    /\ cur = Some(scope_map[definitions][n])
    /\ IF DefineFoundTaggedHere
       THEN cur = last.pre
       ELSE /\ Unwrap(cur).declared_scope = definitions
            /\ Unwrap(cur).free_name = None
            /\ Unwrap(cur).tag_info = None
            /\ Unwrap(cur).id = variable_count
            /\ (IsSome(last.pre) => Unwrap(cur).id # Unwrap(last.pre).id)

\* define_variable on a tagged binding of the current scope: nothing changed
C3_Witness ==
  /\ last.op = "define_variable"
  /\ DefineFoundTaggedHere
  /\ get_variable_info(last.name) = last.pre
  /\ Len(Unwrap(last.pre).tag_info) >= 1

\* define_variable on a tagged binding declared in an enclosing scope: a fresh binding
C3_WitnessOtherScope ==
  /\ last.op = "define_variable"
  /\ IsSome(last.pre)
  /\ Unwrap(last.pre).tag_info # None
  /\ Unwrap(last.pre).declared_scope # definitions
  /\ Unwrap(get_variable_info(last.name)).tag_info = None

\* the three outcomes of get_free_info_from_variable
FreeInfoOutcome ==
  last.op = "get_free_info_from_variable" =>
    LET x == last.name
        info == get_variable_info(x) IN
    /\ info = last.pre
    /\ (~IsSome(info) => last.ret = Some([name |-> x, info |-> None]))
    /\ (IsSome(info) =>
          \/ /\ Unwrap(info).free_name \in {Some(FreeName_String(y)) : y \in Names}
             /\ last.ret = Some([name |-> Unwrap(Unwrap(info).free_name)[2],
                                 info |-> Some(Unwrap(info).id)])
          \/ /\ Unwrap(info).free_name \in {Some(FreeName_True), None}
             /\ last.ret = None)

\* C4: get_free_info_from_variable(x) returns (x, None) when x has no visible
\* binding, (y, Some(binding)) when the binding's free_name is String(y), and
\* no result when it is FreeName::True or None; the call changes no binding
C4_FreeInfoOutcomes ==
  /\ []FreeInfoOutcome
  /\ [][last'.op = "get_free_info_from_variable" => UNCHANGED <<store_vars, is_strict>>]_vars

\* a query on a name bound with free_name = String: the binding comes back
C4_Witness ==
  /\ last.op = "get_free_info_from_variable"
  /\ IsSome(last.ret)
  /\ IsSome(Unwrap(last.ret).info)

\* a query on a name bound free but unnamed: no result
C4_WitnessNone ==
  /\ last.op = "get_free_info_from_variable"
  /\ last.ret = None
  /\ Unwrap(last.pre).free_name = Some(FreeName_True)

\* the dispatch key of a name, from the store
KeyOfName(n, key) ==
  LET info == get_variable_info(n) IN
  /\ (~IsSome(info) => key = Some(n))
  /\ (IsSome(info) /\ IsFreeString(Unwrap(info).free_name) =>
        key = Some(Unwrap(Unwrap(info).free_name)[2]))
  /\ (IsSome(info) /\ ~IsFreeString(Unwrap(info).free_name) => key = None)

\* C5: the dispatch key of a name n is n when n has no visible binding, the
\* binding's free_name string when it has one, and absent when the binding's
\* free_name is FreeName::True or None; an exported reference Name(n) resolves
\* as the name n does, and VariableInfo(id) from the free_name binding id has
\* when the key is asked for
C5_HookDispatchKey ==
  /\ (last.op = "call_hooks_name" => KeyOfName(last.name, last.ret))
  /\ (last.op = "call_hooks_name_exported" /\ last.arg[1] = "Name" =>
        KeyOfName(last.arg[2], last.ret))
  /\ (last.op = "call_hooks_name_exported" /\ last.arg[1] = "VariableInfo" =>
        \E i \in AllInfos :
          /\ i.id = last.arg[2]
          /\ (IsFreeString(i.free_name) => last.ret = Some(Unwrap(i.free_name)[2]))
          /\ (~IsFreeString(i.free_name) => last.ret = None))

\* the key of a name bound free but unnamed is absent
C5_Witness ==
  /\ last.op = "call_hooks_name"
  /\ IsSome(last.pre)
  /\ Unwrap(last.pre).free_name = Some(FreeName_True)
  /\ last.ret = None

\* the key of a reference to a binding with a free name string
C5_WitnessExported ==
  /\ last.op = "call_hooks_name_exported"
  /\ last.arg[1] = "VariableInfo"
  /\ IsSome(last.ret)

\* C6: tag_variable(n, label, data) on a name with no visible binding creates
\* in the current scope a binding declared there, with free_name = String(n)
\* and a chain of the one tag (label, data); get_free_info_from_variable(n)
\* then returns (n, Some(binding))
C6_TagUnbound ==
  (last.op = "tag_variable" /\ ~IsSome(last.pre)) =>
    LET n == last.name IN
    /\ n \in DOMAIN scope_map[definitions]
    /\ scope_map[definitions][n].declared_scope = definitions
    /\ scope_map[definitions][n].free_name = Some(FreeName_String(n))
    /\ scope_map[definitions][n].tag_info = <<[tag |-> last.arg[1], data |-> last.arg[2]]>>
    /\ get_free_info_from_variable(n)
         = Some([name |-> n, info |-> Some(scope_map[definitions][n].id)])

\* an unbound name was tagged, in a nested scope
C6_Witness ==
  /\ last.op = "tag_variable"
  /\ ~IsSome(last.pre)
  /\ definitions > 1
  /\ last.name \in DOMAIN scope_map[definitions]

\* C7: tag_variable(n, label, data) on a name whose visible binding has no tag
\* info gives it a chain of the one tag and free_name = FreeName::True, so
\* that get_free_info_from_variable(n) and call_hooks_name(n) return no result
C7_TagDeclared ==
  (last.op = "tag_variable" /\ IsSome(last.pre) /\ Unwrap(last.pre).tag_info = None) =>
    LET n == last.name
        cur == get_variable_info(n) IN
    /\ IsSome(cur)
    /\ Unwrap(cur).tag_info = <<[tag |-> last.arg[1], data |-> last.arg[2]]>>
    /\ Unwrap(cur).free_name = Some(FreeName_True)
    /\ get_free_info_from_variable(n) = None
    /\ call_hooks_name_str(n) = None

\* a declared name was tagged
C7_Witness ==
  /\ last.op = "tag_variable"
  /\ IsSome(last.pre)
  /\ Unwrap(last.pre).tag_info = None
  /\ Unwrap(last.pre).free_name = None
  /\ Len(Unwrap(get_variable_info(last.name)).tag_info) = 1

-----------------------------------------------------------------------------
\* Properties of walk_program (checked under WalkSpec)

\* the calls walk_program has made, in order
Calls == [i \in 1..Len(trace) |-> trace[i][1]]

SomePluginTakesOver == \E i \in 1..NumPlugins : IsSome(plugins[i])

\* the calls of a walk_program that runs the built-in passes
AllCalls ==
  <<"program", IF ast.kind = "Module" THEN "set_strict" ELSE "detect_mode",
    "pre_walk", "block_pre_walk", "walk">>

\* C8: walk_program dispatches the program hook first; when a plugin answers
\* Some(true) or Some(false), neither strict-mode detection nor any of the three
\* passes runs; when every plugin answers None, all three passes run
C8_ProgramHookHandOff ==
  /\ (trace # <<>> => Calls[1] = "program")
  /\ (SomePluginTakesOver /\ pc # "new" =>
        /\ pc = "done"
        /\ Calls = <<"program">>
        /\ \A s \in 1..MaxScopes : ~is_strict[s])
  /\ (~SomePluginTakesOver /\ pc = "done" =>
        \A p \in {"pre_walk", "block_pre_walk", "walk"} :
          \E i \in 1..Len(trace) : Calls[i] = p)

\* a plugin answered Some(false) and none Some(true): the program was handed off
C8_Witness ==
  /\ pc = "done"
  /\ \E i \in 1..NumPlugins : plugins[i] = Some(FALSE)
  /\ \A i \in 1..NumPlugins : plugins[i] # Some(TRUE)
  /\ Calls = <<"program">>

\* C9: the built-in passes run in the order pre-walk, block-pre-walk, walk,
\* each once and over the program's body, none entered again once a later one
\* has started; for a script, strict-mode detection comes before pre-walk
C9_PhaseOrder ==
  /\ Len(trace) <= Len(AllCalls)
  /\ Calls = SubSeq(AllCalls, 1, Len(trace))
  /\ \A i \in 1..Len(trace) : trace[i][2] = ast.body
  /\ (~SomePluginTakesOver /\ pc = "done" => Calls = AllCalls)

\* a script was walked to the end
C9_Witness ==
  /\ pc = "done"
  /\ ast.kind = "Script"
  /\ Len(ast.body) > 0
  /\ Calls = <<"program", "detect_mode", "pre_walk", "block_pre_walk", "walk">>

\* C10: for a script, the root scope is strict if and only if detect_mode ran
\* and the script's first statement is the string literal "use strict"; an
\* empty script, another first statement, "use strict " or a later
\* "use strict" leave the flag false
C10_StrictPragma ==
  ast.kind = "Script" =>
    /\ is_strict[1] <=>
         /\ \E i \in 1..Len(trace) : Calls[i] = "detect_mode"
         /\ ast.body # <<>>
         /\ ast.body[1] = Stmt_StrLit("use strict")
    /\ \A s \in 2..MaxScopes : ~is_strict[s]

\* a script that starts with "use strict" was detected strict
C10_Witness ==
  /\ ast.kind = "Script"
  /\ is_strict[1]
  /\ ast.body[1] = Stmt_StrLit("use strict")

\* a script with "use strict" as its second statement only was detected, and is not strict
C10_WitnessLater ==
  /\ ast.kind = "Script"
  /\ pc = "done"
  /\ Len(trace) > 1
  /\ Len(ast.body) >= 2
  /\ ast.body[1] # Stmt_StrLit("use strict")
  /\ ast.body[2] = Stmt_StrLit("use strict")
  /\ ~is_strict[1]
-----------------------------------------------------------------------------
\* Expressions (swc_core::ecma::ast), as far as the parser looks into them

MaxChain == 3     \* member accesses in one member expression

Expr_Ident(sym) == <<"Ident", sym>>
Expr_This == <<"This">>
Expr_MetaProp(kind) == <<"MetaProp", kind>>
Expr_Call(callee) == <<"Call", callee>>
Expr_Lit(lit) == <<"Lit", lit>>
Expr_Member(obj, prop) == <<"Member", obj, prop>>
\* an expression of another shape
Expr_Fn == <<"Fn">>

Callee_Expr(e) == <<"Expr", e>>
Callee_Super == <<"Super">>

Lit_Str(value) == <<"Str", value>>
Lit_Bool(value) == <<"Bool", value>>
Lit_Null == <<"Null">>
Lit_Num(value) == <<"Num", value>>
Lit_BigInt(value) == <<"BigInt", value>>
Lit_Regex(exp) == <<"Regex", exp>>

MemberProp_Ident(sym) == <<"Ident", sym>>
MemberProp_Computed(e) == <<"Computed", e>>
MemberProp_PrivateName(name) == <<"PrivateName", name>>

\* Spanned::span(): the source range of a node, one per node
span(e) == <<"span", e>>

\* the member expression root.acc1.acc2...: accs are the accesses in source order
RECURSIVE MemberChain(_, _)
MemberChain(root, accs) ==
  IF accs = <<>> THEN root
  ELSE Expr_Member(MemberChain(root, SubSeq(accs, 1, Len(accs) - 1)), accs[Len(accs)])

-----------------------------------------------------------------------------
\* RootName, object_and_members_to_name, extract_member_expression_chain

\* how a call ends: with a value, or aborted by a panic
Returns(value) == <<"returns", value>>
Panics(message) == <<"panics", message>>

\* a faulty get_root_name (C17): a call passes for its callee
get_root_name_of_callee(e) ==
  CASE e[1] = "Ident" -> Some(e[2])
    [] e[1] = "This" -> Some("this")
    [] e[1] = "MetaProp" -> Some(IF e[2] = "NewTarget" THEN "new.target" ELSE "import.meta")
    [] e[1] = "Call" -> IF e[2][1] = "Expr" /\ e[2][2][1] = "Ident" THEN Some(e[2][2][2]) ELSE None
    [] OTHER -> None

\* impl RootName for Expr (Ident, ThisExpr, MetaPropExpr; None for the rest)
get_root_name(e) ==
  CASE e[1] = "Ident" -> Some(e[2])
    [] e[1] = "This" -> Some("this")
    [] e[1] = "MetaProp" -> Some(IF e[2] = "NewTarget" THEN "new.target" ELSE "import.meta")
    [] OTHER -> None

\* impl RootName for Callee
callee_get_root_name(callee) ==
  IF callee[1] = "Expr" THEN get_root_name(callee[2]) ELSE None

\* a faulty object_and_members_to_name (C11): the members are read in the order given
RECURSIVE name_push_forward(_, _, _)
name_push_forward(name, members, i) ==
  IF i > Len(members) THEN name
  ELSE name_push_forward(name \o "." \o members[i], members, i + 1)

object_and_members_to_name_forward(object, members_reversed) ==
  name_push_forward(object, members_reversed, 1)

\* the loop of object_and_members_to_name: members_reversed.iter().rev(), from index i down
RECURSIVE name_push(_, _, _)
name_push(name, members, i) ==
  IF i = 0 THEN name
  ELSE name_push(name \o "." \o members[i], members, i - 1)

object_and_members_to_name(object, members_reversed) ==
  name_push(object, members_reversed, Len(members_reversed))

\* the member name of a literal computed key
lit_member_value(lit) ==
  CASE lit[1] = "Str" -> lit[2]
    [] lit[1] = "Bool" -> IF lit[2] THEN "true" ELSE "false"
    [] lit[1] = "Null" -> "null"
    [] lit[1] = "Num" -> ToString(lit[2])
    [] lit[1] = "BigInt" -> ToString(lit[2])
    [] lit[1] = "Regex" -> lit[2]

ExtractedMemberExpressionChainData(object, members, member_ranges) ==
  [object |-> object, members |-> members, member_ranges |-> member_ranges]

\* a faulty loop (C21): a computed access with another key is stepped over
RECURSIVE extract_loop_over_computed(_, _, _)
extract_loop_over_computed(object, members, member_ranges) ==
  IF object[1] # "Member"
  THEN ExtractedMemberExpressionChainData(object, members, member_ranges)
  ELSE LET obj == object[2]
           prop == object[3] IN
       IF prop[1] = "Computed"
       THEN IF prop[2][1] # "Lit"
            THEN extract_loop_over_computed(obj, members, member_ranges)
            ELSE extract_loop_over_computed(obj, Append(members, lit_member_value(prop[2][2])),
                                            Append(member_ranges, span(obj)))
       ELSE IF prop[1] = "Ident"
            THEN extract_loop_over_computed(obj, Append(members, prop[2]),
                                            Append(member_ranges, span(obj)))
            ELSE ExtractedMemberExpressionChainData(object, members, member_ranges)

\* the while loop of extract_member_expression_chain
RECURSIVE extract_loop(_, _, _)
extract_loop(object, members, member_ranges) ==
  IF object[1] # "Member"
  THEN ExtractedMemberExpressionChainData(object, members, member_ranges)
  ELSE LET obj == object[2]
           prop == object[3] IN
       IF prop[1] = "Computed"
       THEN IF prop[2][1] # "Lit"
            THEN ExtractedMemberExpressionChainData(object, members, member_ranges)
            ELSE extract_loop(obj, Append(members, lit_member_value(prop[2][2])),
                              Append(member_ranges, span(obj)))
       ELSE IF prop[1] = "Ident"
            THEN extract_loop(obj, Append(members, prop[2]), Append(member_ranges, span(obj)))
            ELSE ExtractedMemberExpressionChainData(object, members, member_ranges)

extract_member_expression_chain(expr) == extract_loop(expr, <<>>, <<>>)

-----------------------------------------------------------------------------
\* Member chains (ChainSpec): the extraction applied to bounded member
\* expressions, one application per behaviour

ChainRoots ==
  {Expr_Ident("a"), Expr_This, Expr_Call(Callee_Expr(Expr_Ident("a"))),
   Expr_Lit(Lit_Str("s")), Expr_Fn}

\* the accesses the extractor records
AcceptedProps ==
  {MemberProp_Ident("b"), MemberProp_Ident("d"),
   MemberProp_Computed(Expr_Lit(Lit_Str("c"))),
   MemberProp_Computed(Expr_Lit(Lit_Num(1))),
   MemberProp_Computed(Expr_Lit(Lit_Bool(TRUE))),
   MemberProp_Computed(Expr_Lit(Lit_Null)),
   MemberProp_Computed(Expr_Lit(Lit_BigInt(7)))}

\* and those it stops at
RefusedProps ==
  {MemberProp_Computed(Expr_Ident("x")), MemberProp_PrivateName("p")}

ChainProps == AcceptedProps \cup RefusedProps

RECURSIVE AccessSeqs(_)
AccessSeqs(n) ==
  IF n = 0 THEN {<<>>}
  ELSE AccessSeqs(n - 1)
         \cup {Append(a, p) : a \in {c \in AccessSeqs(n - 1) : Len(c) = n - 1}, p \in ChainProps}

ChainAccesses == AccessSeqs(MaxChain) \ {<<>>}

chain_extract(root, accs) ==
  /\ last.op = "new"
  /\ last' = Op("extract_member_expression_chain", "", <<root, accs>>,
                extract_member_expression_chain(MemberChain(root, accs)))
  /\ UNCHANGED <<store_vars, is_strict, tag_run, walk_vars, ignored, chain>>

chain_name(root, accs) ==
  /\ last.op = "new"
  /\ IsSome(get_root_name(root))
  /\ last' = Op("object_and_members_to_name", "", <<root, accs>>,
                object_and_members_to_name(
                  Unwrap(get_root_name(root)),
                  extract_member_expression_chain(MemberChain(root, accs)).members))
  /\ UNCHANGED <<store_vars, is_strict, tag_run, walk_vars, ignored, chain>>

chain_root_name(e) ==
  /\ last.op = "new"
  /\ last' = Op("get_root_name", "", e, Returns(get_root_name(e)))
  /\ UNCHANGED <<store_vars, is_strict, tag_run, walk_vars, ignored, chain>>

chain_callee_root_name(callee) ==
  /\ last.op = "new"
  /\ last' = Op("callee_get_root_name", "", callee, Returns(callee_get_root_name(callee)))
  /\ UNCHANGED <<store_vars, is_strict, tag_run, walk_vars, ignored, chain>>

RootNameExprs ==
  ChainRoots \cup {Expr_MetaProp("NewTarget"), Expr_MetaProp("ImportMeta"),
                   Expr_Member(Expr_Ident("a"), MemberProp_Ident("b"))}

ChainNext ==
  \/ last.op = "new" /\ \E root \in ChainRoots, accs \in ChainAccesses : chain_extract(root, accs)
  \/ last.op = "new" /\ \E root \in ChainRoots, accs \in ChainAccesses : chain_name(root, accs)
  \/ last.op = "new" /\ \E e \in RootNameExprs : chain_root_name(e)
  \/ last.op = "new" /\ \E callee \in {Callee_Expr(e) : e \in RootNameExprs} \cup {Callee_Super} :
       chain_callee_root_name(callee)

ChainSpec == Init /\ [][ChainNext]_vars

\* the member name of an access, as the source text gives it
AccessText(prop) ==
  CASE prop = MemberProp_Ident("b") -> "b"
    [] prop = MemberProp_Ident("d") -> "d"
    [] prop = MemberProp_Computed(Expr_Lit(Lit_Str("c"))) -> "c"
    [] prop = MemberProp_Computed(Expr_Lit(Lit_Num(1))) -> "1"
    [] prop = MemberProp_Computed(Expr_Lit(Lit_Bool(TRUE))) -> "true"
    [] prop = MemberProp_Computed(Expr_Lit(Lit_Null)) -> "null"
    [] prop = MemberProp_Computed(Expr_Lit(Lit_BigInt(7))) -> "7"

\* the dotted name root.m1.m2...mk, built from the root outward
RECURSIVE DottedName(_, _)
DottedName(root, accs) ==
  IF accs = <<>> THEN root
  ELSE DottedName(root \o "." \o AccessText(accs[1]), Tail(accs))

AllAccepted(accs) == \A i \in 1..Len(accs) : accs[i] \in AcceptedProps

\* a.b["c"].d
ChainABCD ==
  <<MemberProp_Ident("b"), MemberProp_Computed(Expr_Lit(Lit_Str("c"))), MemberProp_Ident("d")>>

\* C11: for a chain root.m1.m2...mk of identifier and literal computed
\* accesses, extract_member_expression_chain returns the root as object and
\* the members [mk, ..., m2, m1], and object_and_members_to_name reads them in
\* reverse to give "root.m1.m2...mk"; a.b["c"].d gives a, [d, c, b] and a.b.c.d
C11_ChainRoundTrip ==
  /\ (last.op = "extract_member_expression_chain" /\ AllAccepted(last.arg[2]) =>
        /\ last.ret.object = last.arg[1]
        /\ Len(last.ret.members) = Len(last.arg[2])
        /\ \A i \in 1..Len(last.arg[2]) :
             last.ret.members[i] = AccessText(last.arg[2][Len(last.arg[2]) + 1 - i])
        /\ (last.arg = <<Expr_Ident("a"), ChainABCD>> => last.ret.members = <<"d", "c", "b">>))
  /\ (last.op = "object_and_members_to_name" /\ AllAccepted(last.arg[2]) =>
        /\ last.ret = DottedName(Unwrap(get_root_name(last.arg[1])), last.arg[2])
        /\ (last.arg = <<Expr_Ident("a"), ChainABCD>> => last.ret = "a.b.c.d"))

\* the name of a.b["c"].d was built
C11_Witness ==
  /\ last.op = "object_and_members_to_name"
  /\ last.arg = <<Expr_Ident("a"), ChainABCD>>
  /\ last.ret = "a.b.c.d"

\* a.b["c"].d was extracted
C11_WitnessExtract ==
  /\ last.op = "extract_member_expression_chain"
  /\ last.arg = <<Expr_Ident("a"), ChainABCD>>
  /\ last.ret.object = Expr_Ident("a")
  /\ last.ret.members = <<"d", "c", "b">>

\* the shapes that have a root name: an identifier, this, a meta-property
HasRootShape(e) == e[1] \in {"Ident", "This", "MetaProp"}

\* the expression a root name was asked of: the callee's, for a callee
RootNameAskedOf == IF last.op = "get_root_name" THEN Some(last.arg)
                   ELSE IF last.arg[1] = "Expr" THEN Some(last.arg[2]) ELSE None

NoRootName == ~IsSome(RootNameAskedOf) \/ ~HasRootShape(Unwrap(RootNameAskedOf))

\* C17 as stated: get_root_name on a shape that cannot have a root name
\* (a call, a literal, a member expression, a callee that is no expression)
\* aborts the operation
C17_RootNameAborts ==
  last.op \in {"get_root_name", "callee_get_root_name"} /\ NoRootName =>
    last.ret[1] = "panics"

\* C17: get_root_name on a shape that cannot have a root name returns None
\* and aborts nothing; on an identifier, this or a meta-property it returns
\* the name
C17_RootNameAbsent ==
  last.op \in {"get_root_name", "callee_get_root_name"} =>
    IF NoRootName THEN last.ret = Returns(None)
    ELSE LET e == Unwrap(RootNameAskedOf) IN
         last.ret = Returns(Some(CASE e[1] = "Ident" -> e[2]
                                   [] e[1] = "This" -> "this"
                                   [] e = Expr_MetaProp("NewTarget") -> "new.target"
                                   [] e = Expr_MetaProp("ImportMeta") -> "import.meta"))

\* the root name of a call was asked for: None came back
C17_Witness ==
  /\ last.op = "get_root_name"
  /\ last.arg = Expr_Call(Callee_Expr(Expr_Ident("a")))
  /\ last.ret = Returns(None)

\* the root name of the callee super was asked for: None came back
C17_WitnessCallee ==
  /\ last.op = "callee_get_root_name"
  /\ last.arg = Callee_Super
  /\ last.ret = Returns(None)

-----------------------------------------------------------------------------
\* get_member_expression_info

\* bitflags AllowedMemberTypes: the flags a value holds
AllowedMemberTypes_CallExpression == {"CallExpression"}
AllowedMemberTypes_Expression == {"Expression"}
AllowedMemberTypes_All == AllowedMemberTypes_CallExpression \cup AllowedMemberTypes_Expression
contains(allowed_types, flags) == flags \subseteq allowed_types

CallExpressionInfo(call, callee_name, root_info) ==
  [call |-> call, callee_name |-> callee_name, root_info |-> root_info]
ExpressionExpressionInfo(name, root_info) == [name |-> name, root_info |-> root_info]
MemberExpressionInfo_Call(info) == <<"Call", info>>
MemberExpressionInfo_Expression(info) == <<"Expression", info>>

\* a faulty reference to the root (C12): always the bare root name
exported_root_info_by_name(root_info, root_name) == ExportedVariableInfo_Name(root_name)

\* root_info.map(|i| VariableInfo(i.id())).unwrap_or_else(|| Name(root_name))
exported_root_info(root_info, root_name) ==
  IF IsSome(root_info) THEN ExportedVariableInfo_VariableInfo(Unwrap(root_info))
  ELSE ExportedVariableInfo_Name(root_name)

get_member_expression_info(expr, allowed_types) ==
  LET data == extract_member_expression_chain(expr)
      object == data.object
      members == data.members IN
  CASE object[1] = "Call" ->
         IF ~contains(allowed_types, AllowedMemberTypes_CallExpression) THEN None
         ELSE LET root_name == callee_get_root_name(object[2]) IN
              IF ~IsSome(root_name) THEN None
              ELSE LET free == get_free_info_from_variable(Unwrap(root_name)) IN
                   IF ~IsSome(free) THEN None
                   ELSE Some(MemberExpressionInfo_Call(CallExpressionInfo(
                          object,
                          object_and_members_to_name(Unwrap(free).name, members),
                          exported_root_info(Unwrap(free).info, Unwrap(root_name)))))
    [] object[1] \in {"MetaProp", "Ident", "This"} ->
         IF ~contains(allowed_types, AllowedMemberTypes_Expression) THEN None
         ELSE LET root_name == get_root_name(object) IN
              IF ~IsSome(root_name) THEN None
              ELSE LET free == get_free_info_from_variable(Unwrap(root_name)) IN
                   IF ~IsSome(free) THEN None
                   ELSE Some(MemberExpressionInfo_Expression(ExpressionExpressionInfo(
                          object_and_members_to_name(Unwrap(free).name, members),
                          exported_root_info(Unwrap(free).info, Unwrap(root_name)))))
    [] OTHER -> None

-----------------------------------------------------------------------------
\* Member expressions looked up against the root scope (InfoSpec): the
\* bindings are made first, then one query is put

StoreOps == {"new", "define_variable", "undefined_variable", "tag_variable"}

InfoRoots ==
  {Expr_Ident("a"), Expr_Ident("require"), Expr_This, Expr_MetaProp("ImportMeta"),
   Expr_Call(Callee_Expr(Expr_Ident("a"))), Expr_Call(Callee_Super),
   Expr_Call(Callee_Expr(Expr_Fn)), Expr_Fn}

InfoAccesses ==
  {<<MemberProp_Ident("b")>>,
   <<MemberProp_Ident("b"), MemberProp_Computed(Expr_Lit(Lit_Str("c")))>>,
   <<MemberProp_PrivateName("p")>>,
   <<MemberProp_Computed(Expr_Ident("x")), MemberProp_Ident("b")>>,
   <<MemberProp_Ident("b"), MemberProp_Computed(Expr_Ident("x")), MemberProp_Ident("d")>>}

AllowedTypes == SUBSET AllowedMemberTypes_All

query_get_member_expression_info(root, accs, allowed_types) ==
  /\ last.op \in StoreOps
  /\ last' = Op("get_member_expression_info", "", <<root, accs, allowed_types>>,
                get_member_expression_info(MemberChain(root, accs), allowed_types))
  /\ UNCHANGED <<store_vars, is_strict, tag_run, walk_vars, ignored, chain>>

\* is_unresolved_ident(str): no binding is visible from the current scope
is_unresolved_ident(str) == ~IsSome(db_get(definitions, str))

\* the identifier is_unresolved_require looks at: the expression, or a member's object
require_ident(expr) ==
  CASE expr[1] = "Ident" -> Some(expr)
    [] expr[1] = "Member" -> IF expr[2][1] = "Ident" THEN Some(expr[2]) ELSE None
    [] OTHER -> None

\* a faulty is_unresolved_require (C16): the identifier's name is not asserted
is_unresolved_require_any_name(expr) ==
  LET ident == require_ident(expr) IN
  IF ~IsSome(ident) THEN Panics("please don't use this fn in other case")
  ELSE Returns(is_unresolved_ident(Unwrap(ident)[2]))

is_unresolved_require(expr) ==
  LET ident == require_ident(expr) IN
  IF ~IsSome(ident) THEN Panics("please don't use this fn in other case")
  ELSE IF Unwrap(ident)[2] # "require" THEN Panics("assertion failed")
  ELSE Returns(is_unresolved_ident(Unwrap(ident)[2]))

RequireExprs ==
  {Expr_Ident("require"), Expr_Ident("a"),
   Expr_Member(Expr_Ident("require"), MemberProp_Ident("b")),
   Expr_Member(Expr_Ident("a"), MemberProp_Ident("b")),
   Expr_Member(Expr_Member(Expr_Ident("require"), MemberProp_Ident("b")), MemberProp_Ident("d")),
   Expr_Member(Expr_This, MemberProp_Ident("b")),
   Expr_Call(Callee_Expr(Expr_Ident("require"))), Expr_This, Expr_Lit(Lit_Str("require")), Expr_Fn}

query_is_unresolved_require(expr) ==
  /\ last.op \in StoreOps
  /\ last' = Op("is_unresolved_require", "", expr, is_unresolved_require(expr))
  /\ UNCHANGED <<store_vars, is_strict, tag_run, walk_vars, ignored, chain>>

InfoNext ==
  \/ \E n \in Names : last.op \in StoreOps /\ define_variable(n)
  \/ \E n \in Names : last.op \in StoreOps /\ undefined_variable(n)
  \/ \E n \in Names, ta \in TagArgs : last.op \in StoreOps /\ tag_variable(n, ta[1], ta[2])
  \/ last.op \in StoreOps
       /\ \E root \in InfoRoots, accs \in InfoAccesses, allowed_types \in AllowedTypes :
            query_get_member_expression_info(root, accs, allowed_types)
  \/ last.op \in StoreOps /\ \E expr \in RequireExprs : query_is_unresolved_require(expr)
  \/ last.op = "new" /\ \E root \in InfoRoots, accs \in InfoAccesses : chain_extract(root, accs)

InfoSpec == Init /\ [][InfoNext]_vars

\* the root name of a chain root: of the callee for a call, of the root itself otherwise
RootNameOf(root) ==
  IF root[1] = "Call" THEN callee_get_root_name(root[2]) ELSE get_root_name(root)

\* C12: get_member_expression_info(expr, allowed) returns None when the root
\* is a call and allowed lacks CallExpression, when the root is an
\* identifier, this or a meta-property and allowed lacks Expression, when the
\* root is of another shape, when a call root's callee has no root name, and
\* when the root name's binding has no free name string; otherwise it returns
\* Call-info for a call root and Expression-info for the others, the dotted
\* name built on the root's resolved free name, and the root reference the
\* binding's id when the root is bound and the bare root name when it is not
C12_MemberInfo ==
  last.op = "get_member_expression_info" =>
    LET root == last.arg[1]
        accs == last.arg[2]
        allowed == last.arg[3]
        is_call == root[1] = "Call" /\ AllAccepted(accs)
        is_expr == root[1] \in {"Ident", "This", "MetaProp"} /\ AllAccepted(accs)
        root_name == RootNameOf(root)
        binding == IF IsSome(root_name) THEN get_variable_info(Unwrap(root_name)) ELSE None
        no_free_name == IsSome(binding) /\ ~IsFreeString(Unwrap(binding).free_name)
        no_result == \/ is_call /\ "CallExpression" \notin allowed
                     \/ is_expr /\ "Expression" \notin allowed
                     \/ ~is_call /\ ~is_expr
                     \/ ~IsSome(root_name)
                     \/ no_free_name IN
    IF no_result THEN last.ret = None
    ELSE LET resolved == IF IsSome(binding) THEN Unwrap(Unwrap(binding).free_name)[2]
                         ELSE Unwrap(root_name)
             reference == IF IsSome(binding)
                          THEN ExportedVariableInfo_VariableInfo(Unwrap(binding).id)
                          ELSE ExportedVariableInfo_Name(Unwrap(root_name))
             info == Unwrap(last.ret)[2] IN
         /\ IsSome(last.ret)
         /\ Unwrap(last.ret)[1] = IF is_call THEN "Call" ELSE "Expression"
         /\ info.root_info = reference
         /\ IF is_call
            THEN info.callee_name = DottedName(resolved, accs) /\ info.call = root
            ELSE info.name = DottedName(resolved, accs)

\* a().b["c"] with a bound: Call-info on the binding's id
C12_Witness ==
  /\ last.op = "get_member_expression_info"
  /\ last.arg[1] = Expr_Call(Callee_Expr(Expr_Ident("a")))
  /\ Len(last.arg[2]) = 2
  /\ IsSome(get_variable_info("a"))
  /\ IsSome(last.ret)
  /\ Unwrap(last.ret)[1] = "Call"
  /\ Unwrap(last.ret)[2].callee_name = "a.b.c"
  /\ Unwrap(last.ret)[2].root_info = ExportedVariableInfo_VariableInfo(Unwrap(get_variable_info("a")).id)

\* require.b with require unbound: Expression-info on the bare name
C12_WitnessUnbound ==
  /\ last.op = "get_member_expression_info"
  /\ last.arg[1] = Expr_Ident("require")
  /\ ~IsSome(get_variable_info("require"))
  /\ IsSome(last.ret)
  /\ Unwrap(last.ret) = MemberExpressionInfo_Expression(
       ExpressionExpressionInfo("require.b", ExportedVariableInfo_Name("require")))

\* a.b with a declared: the free-name lookup fails
C12_WitnessNoFreeName ==
  /\ last.op = "get_member_expression_info"
  /\ last.arg = <<Expr_Ident("a"), <<MemberProp_Ident("b")>>, AllowedMemberTypes_All>>
  /\ IsSome(get_variable_info("a"))
  /\ last.ret = None

\* a().b asked for as an expression only: the capability is missing
C12_WitnessNotAllowed ==
  /\ last.op = "get_member_expression_info"
  /\ last.arg = <<Expr_Call(Callee_Expr(Expr_Ident("a"))), <<MemberProp_Ident("b")>>,
                  AllowedMemberTypes_Expression>>
  /\ ~IsSome(get_variable_info("a"))
  /\ last.ret = None

\* the expressions is_unresolved_require is meant for: require, and require.x
OnRequire(expr) ==
  \/ expr = Expr_Ident("require")
  \/ expr[1] = "Member" /\ expr[2] = Expr_Ident("require")

\* C16: is_unresolved_require aborts instead of returning when the
\* expression is neither an identifier nor a member expression whose object is
\* an identifier, or when that identifier is not named require; for require
\* and for a member of require it returns, true exactly when require has no
\* visible binding
C16_UnresolvedRequire ==
  last.op = "is_unresolved_require" =>
    IF OnRequire(last.arg)
    THEN last.ret = Returns(~IsSome(get_variable_info("require")))
    ELSE last.ret[1] = "panics"

\* require.b asked about with require bound: it returns false
C16_Witness ==
  /\ last.op = "is_unresolved_require"
  /\ last.arg = Expr_Member(Expr_Ident("require"), MemberProp_Ident("b"))
  /\ IsSome(get_variable_info("require"))
  /\ last.ret = Returns(FALSE)

\* require asked about while it is unbound: it returns true
C16_WitnessUnbound ==
  /\ last.op = "is_unresolved_require"
  /\ last.arg = Expr_Ident("require")
  /\ last.ret = Returns(TRUE)

\* an identifier of another name: the call is aborted
C16_WitnessAborted ==
  /\ last.op = "is_unresolved_require"
  /\ last.arg = Expr_Ident("a")
  /\ last.ret = Panics("assertion failed")

-----------------------------------------------------------------------------
\* The evaluator

\* SpanExt / Span: the offsets of a span, and the location made of two of them
real_lo(sp) == <<"real_lo", sp>>
real_hi(sp) == <<"real_hi", sp>>
hi_0(sp) == <<"hi", sp>>
DependencyLocation_new(start, end) == <<start, end>>

\* BasicEvaluatedExpression: with_range gives the unknown value of a range
BasicEvaluatedExpression_with_range(start, end) ==
  [ty |-> "Unknown", range |-> <<start, end>>, value |-> None,
   identifier |-> None, root_info |-> None]

set_identifier(eval, name, root_info) ==
  [eval EXCEPT !.ty = "Identifier", !.identifier = Some(name), !.root_info = Some(root_info)]

\* the literal-value variants
LiteralValue(ty, value, range) ==
  [ty |-> ty, range |-> range, value |-> Some(value), identifier |-> None, root_info |-> None]

is_compile_time_value(eval) == eval.ty \in {"String", "Number", "Boolean", "RegExp", "Array"}

\* eval::eval_lit_expr, on the literal kinds that have a value variant
eval_lit_expr(lit) ==
  LET range == <<real_lo(span(Expr_Lit(lit))), hi_0(span(Expr_Lit(lit)))>> IN
  CASE lit[1] = "Str" -> Some(LiteralValue("String", lit[2], range))
    [] lit[1] = "Num" -> Some(LiteralValue("Number", lit[2], range))
    [] lit[1] = "Bool" -> Some(LiteralValue("Boolean", lit[2], range))
    [] lit[1] = "Regex" -> Some(LiteralValue("RegExp", lit[2], range))

\* a faulty evaluating (C19): any binding of an identifier gives a reference to it
evaluating_any_binding(expr) ==
  CASE expr[1] = "Lit" -> eval_lit_expr(expr[2])
    [] expr[1] = "Member" ->
         LET info == get_member_expression_info(expr, AllowedMemberTypes_Expression) IN
         IF IsSome(info) /\ Unwrap(info)[1] = "Expression"
         THEN Some(set_identifier(
                BasicEvaluatedExpression_with_range(real_lo(span(expr)), hi_0(span(expr))),
                Unwrap(info)[2].name, Unwrap(info)[2].root_info))
         ELSE None
    [] expr[1] = "Ident" ->
         LET info == get_variable_info(expr[2])
             eval == BasicEvaluatedExpression_with_range(real_lo(span(expr)), hi_0(span(expr))) IN
         IF ~IsSome(info)
         THEN Some(set_identifier(eval, expr[2], ExportedVariableInfo_Name(expr[2])))
         ELSE Some(set_identifier(eval, expr[2], ExportedVariableInfo_VariableInfo(Unwrap(info).id)))
    [] OTHER -> None

evaluating(expr) ==
  CASE expr[1] = "Lit" -> eval_lit_expr(expr[2])
    [] expr[1] = "Member" ->
         LET info == get_member_expression_info(expr, AllowedMemberTypes_Expression) IN
         IF IsSome(info) /\ Unwrap(info)[1] = "Expression"
         THEN Some(set_identifier(
                BasicEvaluatedExpression_with_range(real_lo(span(expr)), hi_0(span(expr))),
                Unwrap(info)[2].name, Unwrap(info)[2].root_info))
         ELSE None
    [] expr[1] = "Ident" ->
         LET info == get_variable_info(expr[2])
             eval == BasicEvaluatedExpression_with_range(real_lo(span(expr)), hi_0(span(expr))) IN
         IF ~IsSome(info)
         THEN Some(set_identifier(eval, expr[2], ExportedVariableInfo_Name(expr[2])))
         ELSE IF IsFreeString(Unwrap(info).free_name)
              THEN Some(set_identifier(eval, expr[2],
                                       ExportedVariableInfo_VariableInfo(Unwrap(info).id)))
              ELSE None
    [] OTHER -> None

\* the name an operation on an expression is recorded under: the identifier's, if it is one
NameOf(expr) == IF expr[1] = "Ident" THEN expr[2] ELSE ""

\* a faulty evaluate_expression (C13): the span of every evaluated value is recorded
evaluate_expression_insert_any(expr) ==
  LET evaluated == evaluating(expr) IN
  /\ IF IsSome(evaluated)
     THEN /\ ignored' = ignored \cup {DependencyLocation_new(real_lo(span(expr)), real_hi(span(expr)))}
          /\ last' = Op("evaluate_expression", NameOf(expr), expr, Unwrap(evaluated))
     ELSE /\ UNCHANGED ignored
          /\ last' = Op("evaluate_expression", NameOf(expr), expr,
                        BasicEvaluatedExpression_with_range(real_lo(span(expr)), hi_0(span(expr))))
  /\ UNCHANGED <<store_vars, is_strict, tag_run, walk_vars, chain>>

\* a faulty evaluate_expression (C14): a value that is no constant is dropped
evaluate_expression_constant_or_unknown(expr) ==
  LET evaluated == evaluating(expr) IN
  /\ IF IsSome(evaluated) /\ is_compile_time_value(Unwrap(evaluated))
     THEN /\ ignored' = ignored \cup {DependencyLocation_new(real_lo(span(expr)), real_hi(span(expr)))}
          /\ last' = Op("evaluate_expression", NameOf(expr), expr, Unwrap(evaluated))
     ELSE /\ UNCHANGED ignored
          /\ last' = Op("evaluate_expression", NameOf(expr), expr,
                        BasicEvaluatedExpression_with_range(real_lo(span(expr)), hi_0(span(expr))))
  /\ UNCHANGED <<store_vars, is_strict, tag_run, walk_vars, chain>>

evaluate_expression(expr) ==
  LET evaluated == evaluating(expr) IN
  /\ IF IsSome(evaluated)
     THEN /\ IF is_compile_time_value(Unwrap(evaluated))
             THEN ignored' = ignored \cup {DependencyLocation_new(real_lo(span(expr)),
                                                                   real_hi(span(expr)))}
             ELSE UNCHANGED ignored
          /\ last' = Op("evaluate_expression", NameOf(expr), expr, Unwrap(evaluated))
     ELSE /\ UNCHANGED ignored
          /\ last' = Op("evaluate_expression", NameOf(expr), expr,
                        BasicEvaluatedExpression_with_range(real_lo(span(expr)), hi_0(span(expr))))
  /\ UNCHANGED <<store_vars, is_strict, tag_run, walk_vars, chain>>

-----------------------------------------------------------------------------
\* Expressions evaluated against the root scope (EvalSpec)

A_B == Expr_Member(Expr_Ident("a"), MemberProp_Ident("b"))

EvalExprs ==
  {Expr_Lit(Lit_Str("s")), Expr_Lit(Lit_Num(1)),
   Expr_Ident("a"), Expr_Ident("require"),
   A_B, Expr_Member(Expr_Ident("require"), MemberProp_Ident("b")),
   Expr_Member(Expr_Call(Callee_Expr(Expr_Ident("a"))), MemberProp_Ident("b")),
   Expr_Member(Expr_This, MemberProp_Ident("b")),
   Expr_This, Expr_Fn}

EvalNext ==
  \/ \E n \in Names : define_variable(n)
  \/ \E n \in Names : undefined_variable(n)
  \/ \E n \in Names : tag_variable(n, "t1", None)
  \/ \E expr \in EvalExprs : evaluate_expression(expr)

EvalSpec == Init /\ [][EvalNext]_vars

\* the location evaluate_expression records for an expression
LocationOf(expr) == DependencyLocation_new(real_lo(span(expr)), real_hi(span(expr)))

\* the unknown value of an expression: its span and nothing else
UnknownOf(expr) ==
  [ty |-> "Unknown", range |-> <<real_lo(span(expr)), hi_0(span(expr))>>, value |-> None,
   identifier |-> None, root_info |-> None]

ConstantTypes == {"String", "Number", "Boolean", "RegExp", "Array"}

C13_WitnessNotConstant ==
  /\ last.op = "evaluate_expression"
  /\ last.ret.ty = "Identifier"
  /\ ignored = {LocationOf(Expr_Lit(Lit_Str("s")))}

\* C14 as stated: evaluate_expression(e) returns the evaluated value when it
\* is a compile-time constant and otherwise an unknown value carrying only
\* e's span
C14_ConstantOrUnknown ==
  last.op = "evaluate_expression" =>
    \/ last.ret.ty \in ConstantTypes /\ Some(last.ret) = evaluating(last.arg)
    \/ last.ret = UnknownOf(last.arg)

\* C14: evaluate_expression(e) returns the value evaluating(e) yields
\* whenever it yields one, a compile-time constant or not (an identifier
\* reference is returned with its name and root reference), and returns the
\* unknown value carrying only e's span exactly when evaluating(e) yields none
C14_EvaluatedOrUnknown ==
  last.op = "evaluate_expression" =>
    /\ IF IsSome(evaluating(last.arg))
       THEN last.ret = Unwrap(evaluating(last.arg))
       ELSE last.ret = UnknownOf(last.arg)
    /\ last.arg[1] = "Lit" => last.ret.ty \in ConstantTypes /\ last.ret.value = Some(last.arg[2][2])
    /\ last.ret.ty \notin ConstantTypes /\ last.ret # UnknownOf(last.arg) =>
         /\ last.ret.ty = "Identifier"
         /\ last.ret.range = UnknownOf(last.arg).range
         /\ IsSome(last.ret.identifier) /\ IsSome(last.ret.root_info)

\* an unbound identifier evaluated: a value that is neither a constant nor unknown
C14_Witness ==
  /\ last.op = "evaluate_expression"
  /\ last.arg = Expr_Ident("require")
  /\ ~IsSome(get_variable_info("require"))
  /\ last.ret.ty = "Identifier"
  /\ last.ret.identifier = Some("require")
  /\ last.ret.root_info = Some(ExportedVariableInfo_Name("require"))

\* an expression of another shape evaluated: the unknown value
C14_WitnessUnknown ==
  /\ last.op = "evaluate_expression"
  /\ last.arg = Expr_Fn
  /\ last.ret = UnknownOf(Expr_Fn)

-----------------------------------------------------------------------------
\* The plugin drive on the `call` hook (DriveSpec): the hook is dispatched
\* for one call expression after another, each plugin's hook being a step

MaxDispatch == 3    \* call expressions the hook is dispatched for

\* the dispatches begun so far
Dispatches == IF last.op = "call" THEN last.arg ELSE 0

\* the hook invocations made for dispatch k, in order: <<k, plugin, result>>
Invocations(k) == SelectSeq(trace, LAMBDA t : t[1] = k)

\* a faulty drive (C15): every plugin is asked
drive_goes_on_always(result) == TRUE

\* the drive goes on to the next plugin when a plugin's hook returned None
drive_goes_on(result) == ~IsSome(result)

\* JavaScriptParserPluginDrive::call(parser, expr, for_name)
drive_call(for_name) ==
  /\ pc \in {"new", "done"}
  /\ Dispatches < MaxDispatch
  /\ last' = Op("call", for_name, Dispatches + 1, None)
  /\ pc' = "call"
  /\ UNCHANGED <<store_vars, is_strict, tag_run, ast, plugins, hook_calls, trace, ignored, chain>>

\* JavascriptParserPlugin::call of the next plugin in registration order
plugin_call(result) ==
  /\ pc = "call"
  /\ LET i == Len(Invocations(last.arg)) + 1 IN
     /\ hook_calls' = [hook_calls EXCEPT ![i] = @ + 1]
     /\ trace' = Append(trace, <<last.arg, i, result>>)
     /\ IF drive_goes_on(result) /\ i < NumPlugins
        THEN pc' = "call" /\ UNCHANGED last
        ELSE pc' = "done" /\ last' = [last EXCEPT !.ret = result]
  /\ UNCHANGED <<store_vars, is_strict, tag_run, ast, plugins, ignored, chain>>

DriveNext ==
  \/ \E for_name \in Names : drive_call(for_name)
  \/ \E result \in HookResults : plugin_call(result)

DriveSpec == Init /\ [][DriveNext]_vars

\* dispatch k has returned
Returned(k) == k < Dispatches \/ (k = Dispatches /\ pc = "done")

\* C15: the `call` hook is dispatched over the plugins in registration
\* order and stops at the first plugin that returns Some: a plugin is asked
\* only after all plugins before it returned None, a plugin returning None
\* passes the call on to the next, the drive's result is the value of the
\* first plugin that returned Some, and when the first plugin returns
\* Some(true) the second is not invoked for that expression
C15_CallStopsAtFirstSome ==
  last.op = "call" =>
    \A k \in 1..Dispatches :
      LET inv == Invocations(k) IN
      /\ Len(inv) <= NumPlugins
      /\ \A j \in 1..Len(inv) : inv[j][2] = j
      /\ \A j \in 1..(Len(inv) - 1) : inv[j][3] = None
      /\ Returned(k) =>
           /\ Len(inv) >= 1
           /\ inv[Len(inv)][3] = None => Len(inv) = NumPlugins
           /\ inv[1][3] = Some(TRUE) => \A j \in 1..Len(inv) : inv[j][2] # 2
           /\ k = Dispatches => last.ret = inv[Len(inv)][3]

\* the first plugin answered Some(true): the second was never invoked
C15_Witness ==
  /\ last.op = "call"
  /\ Dispatches = 1
  /\ pc = "done"
  /\ Invocations(1) = <<<<1, 1, Some(TRUE)>>>>
  /\ hook_calls[1] = 1
  /\ hook_calls[2] = 0
  /\ last.ret = Some(TRUE)

\* the first plugin answered None and the second Some(false)
C15_WitnessPassedOn ==
  /\ last.op = "call"
  /\ Dispatches = 1
  /\ pc = "done"
  /\ Invocations(1) = <<<<1, 1, None>>, <<1, 2, Some(FALSE)>>>>
  /\ last.ret = Some(FALSE)

-----------------------------------------------------------------------------
\* undefined_variable (checked under Spec)

\* the binding name has in scope s itself, if any
BindingIn(map, s, name) == IF name \in DOMAIN map[s] THEN Some(map[s][name]) ELSE None

\* after undefined_variable(n): n has no binding in the current scope, and in
\* the root scope it resolves as an unbound name does
UnboundAfterUndefine ==
  last.op = "undefined_variable" =>
    /\ BindingIn(scope_map, definitions, last.name) = None
    /\ definitions = 1 =>
         /\ get_variable_info(last.name) = None
         /\ get_free_info_from_variable(last.name) = Some(FreeInfo(last.name, None))
         /\ call_hooks_name_str(last.name) = Some(last.name)
         /\ is_unresolved_ident(last.name)

\* C18: after undefined_variable(n), n has no binding in the current scope;
\* in the root scope n is unbound again whatever was defined or tagged on it
\* before (get_free_info_from_variable(n) = (n, None), call_hooks_name(n) = n,
\* is_unresolved_ident(n)); and the step leaves the binding of every other
\* name, in every scope, as it was
C18_UndefineUnbinds ==
  /\ []UnboundAfterUndefine
  /\ [][last'.op = "undefined_variable" =>
          /\ definitions' = definitions
          /\ \A s \in 1..MaxScopes, m \in Names \ {last'.name} :
               BindingIn(scope_map', s, m) = BindingIn(scope_map, s, m)
          /\ \A s \in (1..MaxScopes) \ {definitions} :
               BindingIn(scope_map', s, last'.name) = BindingIn(scope_map, s, last'.name)]_vars

\* a, tagged twice in the root scope next to a bound require, was undefined
C18_Witness ==
  /\ last.op = "undefined_variable"
  /\ last.name = "a"
  /\ definitions = 1
  /\ IsSome(last.pre)
  /\ Len(Unwrap(last.pre).tag_info) = 2
  /\ get_free_info_from_variable("a") = Some(FreeInfo("a", None))
  /\ IsSome(get_variable_info("require"))

\* a was undefined in a nested scope while the root scope binds it
C18_WitnessNested ==
  /\ last.op = "undefined_variable"
  /\ last.name = "a"
  /\ definitions = 2
  /\ IsSome(BindingIn(scope_map, 1, "a"))
  /\ IsSome(last.pre)
  /\ Unwrap(last.pre).declared_scope = 2

-----------------------------------------------------------------------------
\* Identifiers and member expressions evaluated (checked under EvalSpec)

\* the identifier-reference value of an expression: its range, a name and a root reference
IdentifierOf(expr, name, root_info) ==
  [ty |-> "Identifier", range |-> <<real_lo(span(expr)), hi_0(span(expr))>>, value |-> None,
   identifier |-> Some(name), root_info |-> Some(root_info)]

\* C19: evaluating an identifier x depends on x's binding only: unbound, x
\* gives an identifier reference named x whose root reference is the bare
\* name x; bound with free_name String(_), an identifier reference whose root
\* reference is the binding's id; bound with free_name True or None, no
\* evaluation, and evaluate_expression returns unknown; in none of these is
\* x's span added to the ignored spans
C19_IdentifierByBinding ==
  [][last'.op = "evaluate_expression" /\ last'.arg[1] = "Ident" =>
       LET x == last'.arg[2]
           binding == get_variable_info(x) IN
       /\ ignored' = ignored
       /\ LocationOf(last'.arg) \notin ignored'
       /\ IF ~IsSome(binding)
          THEN last'.ret = IdentifierOf(last'.arg, x, ExportedVariableInfo_Name(x))
          ELSE IF IsFreeString(Unwrap(binding).free_name)
               THEN last'.ret = IdentifierOf(last'.arg, x,
                                  ExportedVariableInfo_VariableInfo(Unwrap(binding).id))
               ELSE /\ Unwrap(binding).free_name \in {None, Some(FreeName_True)}
                    /\ evaluating(last'.arg) = None
                    /\ last'.ret = UnknownOf(last'.arg)]_vars

\* a, tagged while unbound (free_name String), was evaluated with a constant recorded
C19_Witness ==
  /\ last.op = "evaluate_expression"
  /\ last.arg = Expr_Ident("a")
  /\ IsSome(last.pre)
  /\ IsFreeString(Unwrap(last.pre).free_name)
  /\ last.ret.root_info = Some(ExportedVariableInfo_VariableInfo(Unwrap(last.pre).id))
  /\ ignored # {}

\* a, declared and then tagged (free_name True), was evaluated
C19_WitnessTrue ==
  /\ last.op = "evaluate_expression"
  /\ last.arg = Expr_Ident("a")
  /\ IsSome(last.pre)
  /\ Unwrap(last.pre).free_name = Some(FreeName_True)
  /\ last.ret.ty = "Unknown"

\* a, declared only (no free_name), was evaluated
C19_WitnessDeclared ==
  /\ last.op = "evaluate_expression"
  /\ last.arg = Expr_Ident("a")
  /\ IsSome(last.pre)
  /\ Unwrap(last.pre).free_name = None
  /\ last.ret.ty = "Unknown"

\* the unbound a was evaluated
C19_WitnessUnbound ==
  /\ last.op = "evaluate_expression"
  /\ last.arg = Expr_Ident("a")
  /\ last.pre = None
  /\ last.ret.root_info = Some(ExportedVariableInfo_Name("a"))

\* the binding of the root identifier of a member expression, if the root is one
RootBinding(expr) ==
  IF expr[1] = "Member" /\ expr[2][1] = "Ident" THEN get_variable_info(expr[2][2]) ELSE None

\* C20: for a member expression whose root identifier is bound with a
\* free_name that is no String (declared by define_variable, or declared and
\* then tagged), as a.b is after `const a = require('x')`,
\* evaluate_expression returns the unknown value, no constant, and leaves the
\* ignored spans as they were
C20_MemberOnLocalBinding ==
  [][/\ last'.op = "evaluate_expression"
     /\ IsSome(RootBinding(last'.arg))
     /\ ~IsFreeString(Unwrap(RootBinding(last'.arg)).free_name)
     => /\ last'.ret = UnknownOf(last'.arg)
        /\ ~is_compile_time_value(last'.ret)
        /\ ignored' = ignored]_vars

\* a.b was evaluated with a declared and then tagged
C20_Witness ==
  /\ last.op = "evaluate_expression"
  /\ last.arg = A_B
  /\ IsSome(get_variable_info("a"))
  /\ Unwrap(get_variable_info("a")).free_name = Some(FreeName_True)
  /\ Len(Unwrap(get_variable_info("a")).tag_info) = 1
  /\ last.ret = UnknownOf(A_B)

\* a.b was evaluated with a declared only
C20_WitnessDeclared ==
  /\ last.op = "evaluate_expression"
  /\ last.arg = A_B
  /\ IsSome(get_variable_info("a"))
  /\ Unwrap(get_variable_info("a")).free_name = None
  /\ last.ret = UnknownOf(A_B)

-----------------------------------------------------------------------------
\* Computed accesses with a key that is no literal (checked under InfoSpec)

OtherComputed(prop) == prop[1] = "Computed" /\ prop[2][1] # "Lit"

\* the outermost access of accs that is a computed access with a key that is no literal
HasOtherComputed(accs) == \E i \in 1..Len(accs) : OtherComputed(accs[i])
OutermostOtherComputed(accs) ==
  CHOOSE i \in 1..Len(accs) :
    OtherComputed(accs[i]) /\ \A j \in (i + 1)..Len(accs) : ~OtherComputed(accs[j])

\* C21: extract_member_expression_chain stops unwrapping at a computed
\* access whose key is no literal: the accesses outside it are the members
\* (outermost first), the object returned is the member expression that ends
\* in that access, and get_member_expression_info on a chain holding such an
\* access (a[x].b) returns None whatever the allowed types
C21_OtherComputedStops ==
  /\ (/\ last.op = "extract_member_expression_chain"
      /\ HasOtherComputed(last.arg[2])
      /\ \A j \in (OutermostOtherComputed(last.arg[2]) + 1)..Len(last.arg[2]) :
           last.arg[2][j] \in AcceptedProps
      => LET accs == last.arg[2]
             i == OutermostOtherComputed(accs) IN
         /\ last.ret.object = MemberChain(last.arg[1], SubSeq(accs, 1, i))
         /\ last.ret.object[1] = "Member"
         /\ last.ret.object[3] = accs[i]
         /\ Len(last.ret.members) = Len(accs) - i
         /\ \A k \in 1..(Len(accs) - i) :
              last.ret.members[k] = AccessText(accs[Len(accs) + 1 - k]))
  /\ (last.op = "get_member_expression_info" /\ HasOtherComputed(last.arg[2]) =>
        last.ret = None)

\* a[x].b was extracted: the object is a[x] and the members are [b]
C21_Witness ==
  /\ last.op = "extract_member_expression_chain"
  /\ last.arg = <<Expr_Ident("a"), <<MemberProp_Computed(Expr_Ident("x")), MemberProp_Ident("b")>>>>
  /\ last.ret.object = Expr_Member(Expr_Ident("a"), MemberProp_Computed(Expr_Ident("x")))
  /\ last.ret.members = <<"b">>

\* a[x].b was asked about with every type allowed and a unbound: no result
C21_WitnessInfo ==
  /\ last.op = "get_member_expression_info"
  /\ last.arg = <<Expr_Ident("a"), <<MemberProp_Computed(Expr_Ident("x")), MemberProp_Ident("b")>>,
                  AllowedMemberTypes_All>>
  /\ ~IsSome(get_variable_info("a"))
  /\ last.ret = None

-----------------------------------------------------------------------------
\* Invariants of the bindings (checked under Spec)

\* the binding last.name has now was made by the operation recorded in last
MadeByLast ==
  /\ IsSome(get_variable_info(last.name))
  /\ Unwrap(get_variable_info(last.name)).id = variable_count
  /\ (IsSome(last.pre) => Unwrap(last.pre).id # variable_count)

\* C22: in every reachable store state a binding has tag info exactly when
\* its free_name is set (True or String); a binding created by
\* define_variable has neither, a binding produced by tag_variable has both
C22_TagInfoIffFreeName ==
  /\ \A s \in 1..MaxScopes : \A n \in DOMAIN scope_map[s] :
       (scope_map[s][n].tag_info # None) <=> (scope_map[s][n].free_name # None)
  /\ \A i \in AllInfos :
       i.free_name # None => i.free_name = Some(FreeName_True) \/ IsFreeString(i.free_name)
  /\ (last.op = "define_variable" /\ MadeByLast =>
        /\ Unwrap(get_variable_info(last.name)).tag_info = None
        /\ Unwrap(get_variable_info(last.name)).free_name = None)
  /\ (last.op = "tag_variable" =>
        /\ MadeByLast
        /\ Unwrap(get_variable_info(last.name)).tag_info # None
        /\ Unwrap(get_variable_info(last.name)).free_name # None)

\* a was tagged while unbound, next to a declared require
C22_Witness ==
  /\ last.op = "tag_variable"
  /\ last.name = "a"
  /\ last.pre = None
  /\ variable_count = 3
  /\ IsSome(get_variable_info("require"))
  /\ Unwrap(get_variable_info("require")).tag_info = None
  /\ Unwrap(get_variable_info("require")).free_name = None
  /\ IsFreeString(Unwrap(get_variable_info("a")).free_name)

\* define_variable made a binding over a tagged one of an enclosing scope
C22_WitnessDefine ==
  /\ last.op = "define_variable"
  /\ MadeByLast
  /\ IsSome(last.pre)
  /\ Unwrap(last.pre).tag_info # None
  /\ definitions = 2

\* C23: in every reachable store state a binding stored under the name n
\* with free_name String(s) has s = n; so call_hooks_name(n) is absent or n,
\* and so is the name get_free_info_from_variable(n) returns
C23_FreeStringIsName ==
  /\ \A s \in 1..MaxScopes : \A n \in DOMAIN scope_map[s] :
       IsFreeString(scope_map[s][n].free_name) => Unwrap(scope_map[s][n].free_name)[2] = n
  /\ \A n \in Names :
       /\ call_hooks_name_str(n) \in {None, Some(n)}
       /\ IsSome(get_free_info_from_variable(n)) =>
            Unwrap(get_free_info_from_variable(n)).name = n

\* require holds the free name "require" through two tags, under a declared a
C23_Witness ==
  /\ IsSome(get_variable_info("require"))
  /\ Unwrap(get_variable_info("require")).free_name = Some(FreeName_String("require"))
  /\ Len(Unwrap(get_variable_info("require")).tag_info) = 2
  /\ call_hooks_name_str("require") = Some("require")
  /\ IsSome(get_variable_info("a"))
  /\ call_hooks_name_str("a") = None

-----------------------------------------------------------------------------
\* The loop of extract_member_expression_chain, turn by turn (LoopSpec)

\* a faulty turn (C24): the range of a literal computed access is not recorded
loop_turn_no_range(data) ==
  IF data.object[1] # "Member" THEN [stops |-> TRUE, data |-> data]
  ELSE LET obj == data.object[2]
           prop == data.object[3] IN
       IF prop[1] = "Computed"
       THEN IF prop[2][1] # "Lit"
            THEN [stops |-> TRUE, data |-> data]
            ELSE [stops |-> FALSE,
                  data |-> ExtractedMemberExpressionChainData(
                             obj, Append(data.members, lit_member_value(prop[2][2])),
                             data.member_ranges)]
       ELSE IF prop[1] = "Ident"
            THEN [stops |-> FALSE,
                  data |-> ExtractedMemberExpressionChainData(
                             obj, Append(data.members, prop[2]),
                             Append(data.member_ranges, span(obj)))]
            ELSE [stops |-> TRUE, data |-> data]

\* one turn of the while loop: whether the loop ends with it, and the
\* object, members and member_ranges it leaves
loop_turn(data) ==
  IF data.object[1] # "Member" THEN [stops |-> TRUE, data |-> data]
  ELSE LET obj == data.object[2]
           prop == data.object[3] IN
       IF prop[1] = "Computed"
       THEN IF prop[2][1] # "Lit"
            THEN [stops |-> TRUE, data |-> data]
            ELSE [stops |-> FALSE,
                  data |-> ExtractedMemberExpressionChainData(
                             obj, Append(data.members, lit_member_value(prop[2][2])),
                             Append(data.member_ranges, span(obj)))]
       ELSE IF prop[1] = "Ident"
            THEN [stops |-> FALSE,
                  data |-> ExtractedMemberExpressionChainData(
                             obj, Append(data.members, prop[2]),
                             Append(data.member_ranges, span(obj)))]
            ELSE [stops |-> TRUE, data |-> data]

LoopRoots == {Expr_Ident("a"), Expr_Call(Callee_Expr(Expr_Ident("a"))), Expr_Fn}

LoopProps ==
  {MemberProp_Ident("b"), MemberProp_Computed(Expr_Lit(Lit_Str("c"))),
   MemberProp_Computed(Expr_Lit(Lit_Num(1))),
   MemberProp_Computed(Expr_Ident("x")), MemberProp_PrivateName("p")}

RECURSIVE LoopSeqs(_)
LoopSeqs(n) ==
  IF n = 0 THEN {<<>>}
  ELSE LoopSeqs(n - 1)
         \cup {Append(a, p) : a \in {c \in LoopSeqs(n - 1) : Len(c) = n - 1}, p \in LoopProps}

LoopAccesses == LoopSeqs(MaxChain) \ {<<>>}

\* the entry of extract_member_expression_chain: object is the expression, the lists are empty
extract_enter(root, accs) ==
  /\ pc = "new"
  /\ chain' = ExtractedMemberExpressionChainData(MemberChain(root, accs), <<>>, <<>>)
  /\ pc' = "loop"
  /\ last' = Op("extract_member_expression_chain", "", <<root, accs>>, None)
  /\ UNCHANGED <<store_vars, is_strict, tag_run, ast, plugins, hook_calls, trace, ignored>>

\* a turn of the loop; the turn that ends it returns object, members and member_ranges
extract_turn ==
  /\ pc = "loop"
  /\ chain' = loop_turn(chain).data
  /\ IF loop_turn(chain).stops
     THEN pc' = "done" /\ last' = [last EXCEPT !.ret = chain]
     ELSE pc' = "loop" /\ UNCHANGED last
  /\ UNCHANGED <<store_vars, is_strict, tag_run, ast, plugins, hook_calls, trace, ignored>>

LoopNext ==
  \/ pc = "new" /\ \E root \in LoopRoots, accs \in LoopAccesses : extract_enter(root, accs)
  \/ extract_turn

\* the loop runs without suspension: a turn that can be taken is taken
LoopSpec == Init /\ [][LoopNext]_vars /\ WF_vars(extract_turn)

\* the access levels of an expression
RECURSIVE Depth(_)
Depth(e) == IF e[1] = "Member" THEN 1 + Depth(e[2]) ELSE 0

\* the levels stripped so far from the expression handed in
Stripped == Depth(MemberChain(last.arg[1], last.arg[2])) - Depth(chain.object)

\* the lists grow with the levels stripped, and the loop ends only at an
\* object that is no member expression or at a property it does not accept
ListsFollowLevels ==
  pc \in {"loop", "done"} =>
    /\ Len(chain.members) = Stripped
    /\ Len(chain.member_ranges) = Stripped
    /\ pc = "done" =>
         /\ last.ret = chain
         /\ chain = extract_member_expression_chain(MemberChain(last.arg[1], last.arg[2]))
         /\ \/ chain.object[1] # "Member"
            \/ chain.object[3][1] = "PrivateName"
            \/ chain.object[3][1] = "Computed" /\ chain.object[3][2][1] # "Lit"

\* C24: extract_member_expression_chain terminates on every member
\* expression: each turn of the loop either ends it or strips exactly one
\* access level, so it ends at the first object that is no member expression
\* or the first property it does not accept; on return members and
\* member_ranges have the same length, the number of levels stripped
C24_ExtractTerminates ==
  /\ []ListsFollowLevels
  /\ [][pc = "loop" =>
          \/ pc' = "done" /\ chain' = chain
          \/ /\ pc' = "loop"
             /\ Depth(chain'.object) = Depth(chain.object) - 1
             /\ chain'.object = chain.object[2]]_vars
  /\ (pc = "loop" ~> pc = "done")

\* a.b[x].b was taken apart: one level stripped, the loop ended at a.b[x]
C24_Witness ==
  /\ pc = "done"
  /\ last.arg = <<Expr_Ident("a"), <<MemberProp_Ident("b"), MemberProp_Computed(Expr_Ident("x")),
                                     MemberProp_Ident("b")>>>>
  /\ Len(last.ret.members) = 1
  /\ Len(last.ret.member_ranges) = 1
  /\ last.ret.object = Expr_Member(Expr_Member(Expr_Ident("a"), MemberProp_Ident("b")),
                                   MemberProp_Computed(Expr_Ident("x")))

\* a.b["c"][1] was taken apart down to a: three levels, three members, three ranges
C24_WitnessWhole ==
  /\ pc = "done"
  /\ last.ret.object = Expr_Ident("a")
  /\ last.ret.members = <<"1", "c", "b">>
  /\ Len(last.ret.member_ranges) = 3
====
